---- MODULE Spec2Model ----
(***************************************************************************)
(* Model of the audio playback engine of auric-tui:                        *)
(*   src/src/audio/player.rs    AudioPlayer, PositionTrackingSource        *)
(*   src/src/audio/spectrum.rs  SampleBuffer, SharedSpectrum               *)
(*                                                                         *)
(* Two execution contexts are modelled: the control path (the methods of   *)
(* AudioPlayer, one action per method, each action the whole method) and   *)
(* the audio path (one action per call of PositionTrackingSource::next).   *)
(*                                                                         *)
(* Representation of values                                                *)
(*   f32 volume     an integer v standing for v * 2^-28; every volume the  *)
(*                  program can compute from the inputs below is such a    *)
(*                  multiple, and F32Round rounds a sum to the 24-bit      *)
(*                  significand of f32 (round to nearest, ties to even).   *)
(*                  NaN is the one value outside the number line.          *)
(*   Duration       an integer number of 1/UnitsPerSec seconds.            *)
(*   Option<T>      a sequence of length 0 (None) or 1 (Some).             *)
(*   f32 sample     an integer s standing for s * 2^-15.                   *)
(***************************************************************************)
EXTENDS Integers, Sequences, FiniteSets, TLC

\* ------------------------------------------------------------------ bounds
\* Resolution of a Duration: units per second.
UnitsPerSec == 2

\* Number of samples in the shortest modelled file.
FileLen == 3

\* Capacity of the sample ring buffer (2048 in the program, scaled down).
FFT_SIZE == 2

\* Number of display bars (32 in the program, scaled down).
NUM_BARS == 2

\* Cap of the history counter of consecutive volume_up() calls.
MaxStreak == 22

\* Resolution of a display bar: a bar value v stands for v / BarScale.
BarScale == 10

\* ------------------------------------------------------------- f32 values
One == 2^28

\* 0.05f32 = 13421773 * 2^-28
VOLUME_STEP == 13421773

\* 0.8f32 = 214748368 * 2^-28 (the default configuration volume)
DEFAULT_VOLUME == 214748368

NaN == 0 - 2^30

IsNaN(v) == v = NaN

\* Power of two by which a magnitude below 2^29 exceeds 24 significant bits.
F32Shift(m) ==
    IF m < 2^24 THEN 1
    ELSE IF m < 2^25 THEN 2
    ELSE IF m < 2^26 THEN 4
    ELSE IF m < 2^27 THEN 8
    ELSE IF m < 2^28 THEN 16
    ELSE 32

\* Mutant of F32RoundMag: the sum is truncated toward zero.
F32RoundMagTruncating(m) ==
    LET k == F32Shift(m) IN (m \div k) * k

\* Round a non-negative magnitude to nearest, ties to even.
F32RoundMag(m) ==
    LET k == F32Shift(m)
        q == m \div k
        r == m % k
    IN  IF 2 * r > k \/ (2 * r = k /\ q % 2 = 1) THEN (q + 1) * k ELSE q * k

F32Round(x) == IF x < 0 THEN 0 - F32RoundMag(0 - x) ELSE F32RoundMag(x)

\* f32 addition and subtraction.
F32Add(a, b) == IF IsNaN(a) \/ IsNaN(b) THEN NaN ELSE F32Round(a + b)

F32Sub(a, b) == IF IsNaN(a) \/ IsNaN(b) THEN NaN ELSE F32Round(a - b)

\* f32::clamp: NaN is returned unchanged.
F32Clamp(v, lo, hi) ==
    IF IsNaN(v) THEN NaN
    ELSE IF v < lo THEN lo
    ELSE IF v > hi THEN hi
    ELSE v

\* ------------------------------------------------------------ the inputs
States == {"Stopped", "Playing", "Paused"}

\* The files the decoder can open; any other path fails to open.
GoodPaths == {"a", "b"}

Paths == GoodPaths \cup {"bad"}

\* Decoded stream of a file: sample rate, channel count, interleaved samples.
\* File "a" is mono with every sample the i16 value 1; file "b" is stereo
\* with one sample more, its left channel at 1 and its right channel at 2.
Decode(p) ==
    IF p = "a"
    THEN [sample_rate |-> 1, channels |-> 1,
          data |-> [i \in 1..FileLen |-> 1]]
    ELSE [sample_rate |-> 1, channels |-> 2,
          data |-> [i \in 1..(FileLen + 1) |-> 1 + ((i - 1) % 2)]]

\* Caller-supplied durations: zero, below a second, and whole seconds.
Durations == {0, 1, 2 * UnitsPerSec}

\* Seek targets and seek amounts.
SeekArgs == {1, UnitsPerSec}

\* Arguments of set_volume.
\* Samples handed to SharedSpectrum::push_sample.
SampleInputs == (0 - 4)..4

\* Silence and one tone sample.
ToneInputs == {0, 1}

\* The magnitude of a bar before scaling, in dB (20 * log10 of the averaged
\* FFT magnitude); ZeroMagnitude is the magnitude 0.0, which has no dB value.
ZeroMagnitude == 0 - 2^10

\* Magnitudes below the -60 dB floor, inside the range and above 0 dB.
MagnitudeInputs == {ZeroMagnitude, 0 - 90, 0 - 30, 6}

\* The magnitudes of all bars for one analysis: one bar at any of the
\* magnitudes, the others at 0.0 or all inside the range.
Spectra ==
    {[i \in 0..(NUM_BARS - 1) |-> IF i = k THEN m ELSE l] :
        k \in 0..(NUM_BARS - 1), m \in MagnitudeInputs,
        l \in {ZeroMagnitude, 0 - 30}}

\* The magnitudes of a buffer that holds the tone sample: every bar is
\* above 0 dB.
ToneSpectra == {[i \in 0..(NUM_BARS - 1) |-> 6]}

OutOfRangeVolumes == {0 - One, One + One \div 2}

VolumeInputs == {NaN, 0 - One, DEFAULT_VOLUME, One + One \div 2}

\* ------------------------------------------------------------- the state
VARIABLES
    state,          \* AudioPlayer.state
    volume,         \* AudioPlayer.volume
    current_path,   \* AudioPlayer.current_path
    position_secs,  \* AudioPlayer.position_secs (shared atomic)
    is_playing,     \* AudioPlayer.is_playing (shared atomic)
    duration,       \* AudioPlayer.duration
    sink,           \* AudioPlayer.sink: paused flag, volume and source queue
    detached,       \* source of a stopped sink the audio path still holds
    samples,        \* SampleBuffer.samples
    write_pos,      \* SampleBuffer.write_pos
    bars,           \* SharedSpectrum.bars
    smoothed_bars,  \* SpectrumAnalyzer.smoothed_bars
    buffer_lock,    \* holder of the Mutex of SharedSpectrum.sample_buffer
    bars_lock,      \* holder of the Mutex of SharedSpectrum.bars
    pusher,         \* audio thread: its place in push_sample and the sample
    ui,             \* control thread: its place in analyze or clear, the copy
                    \* and, as history, the pushes seen when the lock was taken
    pushed,         \* history: the samples pushed into the SampleBuffer
    call,           \* history: the most recent control-path call
    streak,         \* history: consecutive volume_up() calls since volume 0.0
    toggled         \* history: the current pair of consecutive toggle_pause()

playerVars == <<state, volume, current_path, position_secs, is_playing,
                duration, sink>>

\* The locks of SharedSpectrum and the places of the two threads in the
\* methods that take them.
lockVars == <<buffer_lock, bars_lock, pusher, ui>>

audioVars == <<detached, samples, write_pos, bars, smoothed_bars, lockVars,
               pushed>>

vars == <<state, volume, current_path, position_secs, is_playing, duration,
          sink, detached, samples, write_pos, bars, smoothed_bars,
          buffer_lock, bars_lock, pusher, ui, pushed,
          call, streak, toggled>>

\* Sink::try_new: not paused, volume 1.0, nothing queued.
NewSink == [paused |-> FALSE, volume |-> One, queue |-> <<>>]

\* PositionTrackingSource::new.  The field pushes is history: the number of
\* push_sample calls the wrapper has made.
NewSource(p) ==
    [path |-> p, idx |-> 0, samples_played |-> 0,
     sample_rate |-> Decode(p).sample_rate,
     channels |-> Decode(p).channels,
     channel_idx |-> 0,
     pushes |-> 0]

\* The record of a control-path call.
Call(op, ret, arg, path, seek) ==
    [op |-> op, pre |-> state, ret |-> ret, arg |-> arg, path |-> path,
     seek |-> seek]

Init ==
    /\ state = "Stopped"
    /\ volume = One
    /\ current_path = <<>>
    /\ position_secs = 0
    /\ is_playing = FALSE
    /\ duration = 0
    /\ sink = NewSink
    /\ detached = <<>>
    /\ samples = [i \in 0..(FFT_SIZE - 1) |-> 0]
    /\ write_pos = 0
    /\ bars = [i \in 0..(NUM_BARS - 1) |-> 0]
    /\ smoothed_bars = [i \in 0..(NUM_BARS - 1) |-> 0]
    /\ buffer_lock = "free"
    /\ bars_lock = "free"
    /\ pusher = [pc |-> "idle", sample |-> 0]
    /\ ui = [pc |-> "idle", copy |-> <<>>, seen |-> <<>>]
    /\ pushed = [window |-> [i \in 1..FFT_SIZE |-> 0], n |-> 0]
    /\ call = [op |-> "new", pre |-> "Stopped", ret |-> "Ok", arg |-> 0,
               path |-> <<>>, seek |-> <<>>]
    /\ streak = 0 - 1
    /\ toggled = <<>>

\* ------------------------------------------------------------ queries
\* AudioPlayer::position
position == position_secs * UnitsPerSec

\* Duration::as_secs
AsSecs(d) == d \div UnitsPerSec

\* Sink::empty
SinkEmpty == sink.queue = <<>>

\* Mutant of is_finished: the playback state is not consulted.
is_finishedIgnoringState == SinkEmpty

\* AudioPlayer::is_finished
is_finished == SinkEmpty /\ state = "Playing"

\* AudioPlayer::progress, as the fraction <<numerator, denominator>>.
progress ==
    IF AsSecs(duration) = 0 THEN <<0, 1>> ELSE <<position, duration>>

\* ------------------------------------------------- control path: transport
\* Mutant of StoppedSink: the sink is neither stopped nor replaced.
StoppedSinkKeepingQueue(fresh) == sink

\* self.sink.stop() followed by the replacement of the sink: the queue is
\* emptied; Sink::try_new either yields a fresh sink or the old one is kept.
StoppedSink(fresh) == IF fresh THEN NewSink ELSE [sink EXCEPT !.queue = <<>>]

\* The source of the stopped sink: stop() does not wait for the audio path,
\* which keeps the source until it observes the stop.
DetachedAfterStop == IF sink.queue # <<>> THEN <<Head(sink.queue)>> ELSE detached

\* SharedSpectrum::clear
ClearedBars == [i \in DOMAIN bars |-> 0]

\* Mutant of Stop: the duration of the stopped track is kept.
StopKeepingDuration ==
    \E fresh \in BOOLEAN :
        /\ sink' = StoppedSink(fresh)
        /\ detached' = DetachedAfterStop
        /\ state' = "Stopped"
        /\ current_path' = <<>>
        /\ position_secs' = 0
        /\ is_playing' = FALSE
        /\ bars' = ClearedBars
        /\ call' = Call("stop", "Ok", 0, <<>>, <<>>)
        /\ toggled' = <<>>
        /\ UNCHANGED <<duration, volume, samples, write_pos, smoothed_bars, lockVars, pushed,
                   streak>>

\* Mutant of Stop: the ring buffer is cleared together with the bars.
StopClearingBuffer ==
    \E fresh \in BOOLEAN :
        /\ sink' = StoppedSink(fresh)
        /\ detached' = DetachedAfterStop
        /\ state' = "Stopped"
        /\ current_path' = <<>>
        /\ position_secs' = 0
        /\ is_playing' = FALSE
        /\ duration' = 0
        /\ bars' = ClearedBars
        /\ samples' = [i \in DOMAIN samples |-> 0]
        /\ write_pos' = 0
        /\ call' = Call("stop", "Ok", 0, <<>>, <<>>)
        /\ toggled' = <<>>
        /\ UNCHANGED <<volume, smoothed_bars, lockVars, pushed, streak>>

\* AudioPlayer::stop
Stop ==
    \E fresh \in BOOLEAN :
        /\ sink' = StoppedSink(fresh)
        /\ detached' = DetachedAfterStop
        /\ state' = "Stopped"
        /\ current_path' = <<>>
        /\ position_secs' = 0
        /\ is_playing' = FALSE
        /\ duration' = 0
        /\ bars' = ClearedBars
        /\ call' = Call("stop", "Ok", 0, <<>>, <<>>)
        /\ toggled' = <<>>
        /\ UNCHANGED <<volume, samples, write_pos, smoothed_bars, lockVars, pushed,
                   streak>>

\* Mutant of PlayErr: the file is opened before anything is stopped, so a
\* failure leaves the player as it was.
PlayErrWithoutStop(path, d) ==
    /\ path \notin GoodPaths
    /\ call' = Call("play", "Err", d, <<path>>, <<>>)
    /\ toggled' = <<>>
    /\ UNCHANGED <<playerVars, audioVars, streak>>

\* Mutant of PlayErr: the is-playing flag is left as it was.
PlayErrKeepingFlag(path, d) ==
    \E fresh \in BOOLEAN :
        /\ path \notin GoodPaths
        /\ sink' = StoppedSink(fresh)
        /\ detached' = DetachedAfterStop
        /\ state' = "Stopped"
        /\ current_path' = <<>>
        /\ position_secs' = 0
        /\ duration' = 0
        /\ bars' = ClearedBars
        /\ call' = Call("play", "Err", d, <<path>>, <<>>)
        /\ toggled' = <<>>
        /\ UNCHANGED <<is_playing, volume, samples, write_pos, smoothed_bars, lockVars, pushed,
                   streak>>

\* AudioPlayer::play, the file cannot be opened or decoded: the error is
\* returned after the stop.
PlayErr(path, d) ==
    \E fresh \in BOOLEAN :
        /\ path \notin GoodPaths
        /\ sink' = StoppedSink(fresh)
        /\ detached' = DetachedAfterStop
        /\ state' = "Stopped"
        /\ current_path' = <<>>
        /\ position_secs' = 0
        /\ is_playing' = FALSE
        /\ duration' = 0
        /\ bars' = ClearedBars
        /\ call' = Call("play", "Err", d, <<path>>, <<>>)
        /\ toggled' = <<>>
        /\ UNCHANGED <<volume, samples, write_pos, smoothed_bars, lockVars, pushed,
                   streak>>

\* Mutant of PlayOk: the stored volume is not applied to the sink.
PlayOkDefaultVolume(path, d) ==
    \E fresh \in BOOLEAN :
        /\ path \in GoodPaths
        /\ sink' = [StoppedSink(fresh) EXCEPT
                        !.queue = Append(@, NewSource(path)),
                        !.paused = FALSE]
        /\ detached' = DetachedAfterStop
        /\ duration' = d
        /\ state' = "Playing"
        /\ current_path' = <<path>>
        /\ position_secs' = 0
        /\ is_playing' = TRUE
        /\ bars' = ClearedBars
        /\ call' = Call("play", "Ok", d, <<path>>, <<>>)
        /\ toggled' = <<>>
        /\ UNCHANGED <<volume, samples, write_pos, smoothed_bars, lockVars, pushed,
                   streak>>

\* AudioPlayer::play, the file opens and decodes.
PlayOk(path, d) ==
    \E fresh \in BOOLEAN :
        /\ path \in GoodPaths
        /\ sink' = [StoppedSink(fresh) EXCEPT
                        !.queue = Append(@, NewSource(path)),
                        !.volume = volume,
                        !.paused = FALSE]
        /\ detached' = DetachedAfterStop
        /\ duration' = d
        /\ state' = "Playing"
        /\ current_path' = <<path>>
        /\ position_secs' = 0
        /\ is_playing' = TRUE
        /\ bars' = ClearedBars
        /\ call' = Call("play", "Ok", d, <<path>>, <<>>)
        /\ toggled' = <<>>
        /\ UNCHANGED <<volume, samples, write_pos, smoothed_bars, lockVars, pushed,
                   streak>>

Play == \E path \in Paths, d \in Durations : PlayOk(path, d) \/ PlayErr(path, d)

\* Mutant of PauseBody: pausing rewinds the elapsed-seconds counter.
PauseBodyRewinding(op) ==
    /\ IF state = "Playing"
       THEN /\ sink' = [sink EXCEPT !.paused = TRUE]
            /\ state' = "Paused"
            /\ is_playing' = FALSE
            /\ position_secs' = 0
       ELSE UNCHANGED <<sink, state, is_playing, position_secs>>
    /\ call' = Call(op, "Ok", 0, <<>>, <<>>)
    /\ UNCHANGED <<volume, current_path, duration, detached,
                   samples, write_pos, bars, smoothed_bars, lockVars,
                   pushed, streak>>

\* The body of pause(), shared with toggle_pause().
PauseBody(op) ==
    /\ IF state = "Playing"
       THEN /\ sink' = [sink EXCEPT !.paused = TRUE]
            /\ state' = "Paused"
            /\ is_playing' = FALSE
       ELSE UNCHANGED <<sink, state, is_playing>>
    /\ call' = Call(op, "Ok", 0, <<>>, <<>>)
    /\ UNCHANGED <<volume, current_path, position_secs, duration, detached,
                   samples, write_pos, bars, smoothed_bars, lockVars,
                   pushed, streak>>

\* Mutant of ResumeBody: the state is not tested.
ResumeBodyUnguarded(op) ==
    /\ sink' = [sink EXCEPT !.paused = FALSE]
    /\ state' = "Playing"
    /\ is_playing' = TRUE
    /\ call' = Call(op, "Ok", 0, <<>>, <<>>)
    /\ UNCHANGED <<volume, current_path, position_secs, duration, detached,
                   samples, write_pos, bars, smoothed_bars, lockVars,
                   pushed, streak>>

\* The body of resume(), shared with toggle_pause().
ResumeBody(op) ==
    /\ IF state = "Paused"
       THEN /\ sink' = [sink EXCEPT !.paused = FALSE]
            /\ state' = "Playing"
            /\ is_playing' = TRUE
       ELSE UNCHANGED <<sink, state, is_playing>>
    /\ call' = Call(op, "Ok", 0, <<>>, <<>>)
    /\ UNCHANGED <<volume, current_path, position_secs, duration, detached,
                   samples, write_pos, bars, smoothed_bars, lockVars,
                   pushed, streak>>

\* Mutant of Pause: the state is not checked before pausing.
PauseUnguarded ==
    /\ sink' = [sink EXCEPT !.paused = TRUE]
    /\ state' = "Paused"
    /\ is_playing' = FALSE
    /\ call' = Call("pause", "Ok", 0, <<>>, <<>>)
    /\ toggled' = <<>>
    /\ UNCHANGED <<volume, current_path, position_secs, duration, detached,
                   samples, write_pos, bars, smoothed_bars, lockVars, pushed, streak>>

\* AudioPlayer::pause
Pause == PauseBody("pause") /\ toggled' = <<>>

\* Mutant of Resume: resuming stores 0 into the elapsed-seconds counter.
ResumeStoring ==
    /\ IF state = "Paused"
       THEN /\ sink' = [sink EXCEPT !.paused = FALSE]
            /\ state' = "Playing"
            /\ is_playing' = TRUE
            /\ position_secs' = 0
       ELSE UNCHANGED <<sink, state, is_playing, position_secs>>
    /\ call' = Call("resume", "Ok", 0, <<>>, <<>>)
    /\ toggled' = <<>>
    /\ UNCHANGED <<volume, current_path, duration, detached, samples,
                   write_pos, bars, smoothed_bars, lockVars, pushed, streak>>

\* AudioPlayer::resume
Resume == ResumeBody("resume") /\ toggled' = <<>>

\* History of toggle_pause(): the state before the first call of the current
\* pair of consecutive calls, and how many calls of the pair were made.
Toggled ==
    IF toggled # <<>> /\ toggled[2] = 1 THEN <<toggled[1], 2>> ELSE <<state, 1>>

\* Mutant of TogglePause: both non-stopped states dispatch to pause().
TogglePauseAlwaysPausing ==
    /\ IF state # "Stopped" THEN PauseBody("toggle_pause")
       ELSE /\ call' = Call("toggle_pause", "Ok", 0, <<>>, <<>>)
            /\ UNCHANGED <<playerVars, audioVars, streak>>
    /\ toggled' = Toggled

\* AudioPlayer::toggle_pause
TogglePause ==
    /\ IF state = "Playing" THEN PauseBody("toggle_pause")
       ELSE IF state = "Paused" THEN ResumeBody("toggle_pause")
       ELSE /\ call' = Call("toggle_pause", "Ok", 0, <<>>, <<>>)
            /\ UNCHANGED <<playerVars, audioVars, streak>>
    /\ toggled' = Toggled

\* Mutant of SeekBody: a rejected seek stops the playback and is an error.
SeekBodyFatal(op, arg, target) ==
    \E accepted \in BOOLEAN :
        /\ call' = Call(op, IF accepted THEN "Ok" ELSE "Err", arg, <<>>,
                        <<target, accepted>>)
        /\ toggled' = <<>>
        /\ state' = IF accepted THEN state ELSE "Stopped"
        /\ UNCHANGED <<volume, current_path, position_secs, is_playing,
                       duration, sink, audioVars, streak>>

\* Mutant of SeekBody: an accepted seek moves the elapsed-seconds counter to
\* the target.
SeekBodyStoring(op, arg, target) ==
    \E accepted \in BOOLEAN :
        /\ call' = Call(op, "Ok", arg, <<>>, <<target, accepted>>)
        /\ toggled' = <<>>
        /\ position_secs' = IF accepted THEN target \div UnitsPerSec
                             ELSE position_secs
        /\ UNCHANGED <<state, volume, current_path, is_playing, duration,
                       sink, audioVars, streak>>

\* ------------------------------------------------------ control path: seek
\* The body of seek(): Sink::try_seek accepts or rejects the request; a
\* rejection only sends PlayerEvent::Error.  The wrapper source has no
\* try_seek of its own, so no field of it moves.
SeekBody(op, arg, target) ==
    \E accepted \in BOOLEAN :
        /\ call' = Call(op, "Ok", arg, <<>>, <<target, accepted>>)
        /\ toggled' = <<>>
        /\ UNCHANGED <<playerVars, audioVars, streak>>

\* AudioPlayer::seek
Seek == \E p \in SeekArgs : SeekBody("seek", p, p)

\* The target seek_forward() computes.
SeekForwardTarget(amount) == position + amount

\* Mutant of SeekForward: the end of the track is accepted as a target.
SeekForwardInclusive ==
    \E amount \in SeekArgs :
        IF SeekForwardTarget(amount) <= duration
        THEN SeekBody("seek_forward", amount, SeekForwardTarget(amount))
        ELSE /\ call' = Call("seek_forward", "Ok", amount, <<>>, <<>>)
             /\ toggled' = <<>>
             /\ UNCHANGED <<playerVars, audioVars, streak>>

\* AudioPlayer::seek_forward
SeekForward ==
    \E amount \in SeekArgs :
        IF SeekForwardTarget(amount) < duration
        THEN SeekBody("seek_forward", amount, SeekForwardTarget(amount))
        ELSE /\ call' = Call("seek_forward", "Ok", amount, <<>>, <<>>)
             /\ toggled' = <<>>
             /\ UNCHANGED <<playerVars, audioVars, streak>>

\* Duration::saturating_sub
SaturatingSub(a, b) == IF a > b THEN a - b ELSE 0

\* AudioPlayer::seek_backward
SeekBackward ==
    \E amount \in SeekArgs :
        SeekBody("seek_backward", amount, SaturatingSub(position, amount))

\* ---------------------------------------------------- control path: volume
\* The body of set_volume(), shared with volume_up() and volume_down().
\* The streak counts the volume_up() calls made since the volume was 0.0.
SetVolumeBody(op, v) ==
    LET stored == F32Clamp(v, 0, One) IN
    /\ volume' = stored
    /\ sink' = [sink EXCEPT !.volume = stored]
    /\ call' = Call(op, "Ok", v, <<>>, <<>>)
    /\ streak' = IF op = "volume_up" /\ streak >= 0
                 THEN (IF streak < MaxStreak THEN streak + 1 ELSE MaxStreak)
                 ELSE IF stored = 0 THEN 0 ELSE 0 - 1
    /\ toggled' = <<>>
    /\ UNCHANGED <<state, current_path, position_secs, is_playing, duration,
                   audioVars>>

\* AudioPlayer::set_volume
SetVolume == \E v \in VolumeInputs : SetVolumeBody("set_volume", v)

\* AudioPlayer::set_volume with an argument below and one above the range.
SetVolumeOutOfRange ==
    \E v \in OutOfRangeVolumes : SetVolumeBody("set_volume", v)

\* AudioPlayer::volume_up
VolumeUp == SetVolumeBody("volume_up", F32Add(volume, VOLUME_STEP))

\* AudioPlayer::volume_down
VolumeDown == SetVolumeBody("volume_down", F32Sub(volume, VOLUME_STEP))

\* ------------------------------------------------------------- audio path
\* SampleBuffer::push
PushedSamples(s) == [samples EXCEPT ![write_pos] = s]

\* Mutant of PushedWritePos: the write position is not advanced.
PushedWritePosStuck == write_pos

PushedWritePos == (write_pos + 1) % FFT_SIZE

\* SampleBuffer::get_samples: FFT_SIZE values read from write_pos onwards.
get_samples == [i \in 1..FFT_SIZE |-> samples[(write_pos + (i - 1)) % FFT_SIZE]]

\* The history after one more push: the last FFT_SIZE elements of FFT_SIZE
\* zeros followed by every pushed value, and the number of pushes, counted
\* up to FFT_SIZE.
Pushed(s) ==
    [window |-> Tail(pushed.window) \o <<s>>,
     n |-> IF pushed.n < FFT_SIZE THEN pushed.n + 1 ELSE pushed.n]

\* SharedSpectrum::push_sample: SampleBuffer::push under the buffer's lock.
push_sample(s) ==
    /\ samples' = PushedSamples(s)
    /\ write_pos' = PushedWritePos
    /\ pushed' = Pushed(s)

\* Sample::to_sample::<f32>: an i16 sample s is the f32 value s * 2^-15.
ToSampleF32(s) == s

SamplesPerSecond(src) == src.sample_rate * src.channels

\* The inner source has a next sample.
HasNext(src) == src.idx < Len(Decode(src.path).data)

\* Mutant of NextSample: the first-channel sample of the frame is returned
\* for every channel.
NextSampleOfFirstChannel(src) ==
    Decode(src.path).data[src.idx + 1 - src.channel_idx]

\* The sample PositionTrackingSource::next returns.
NextSample(src) == Decode(src.path).data[src.idx + 1]

\* Mutant of Advanced: the channel index is not wrapped.
AdvancedWithoutWrap(src) ==
    [src EXCEPT !.idx = @ + 1,
                !.samples_played = @ + 1,
                !.channel_idx = @ + 1,
                !.pushes = IF src.channel_idx = 0 THEN @ + 1 ELSE @]

\* The wrapper after one call of next() that returned a sample.
Advanced(src) ==
    [src EXCEPT !.idx = @ + 1,
                !.samples_played = @ + 1,
                !.channel_idx = (@ + 1) % src.channels,
                !.pushes = IF src.channel_idx = 0 THEN @ + 1 ELSE @]

\* The effect of one call of PositionTrackingSource::next on the shared
\* state, for a call that returns a sample.
NextEffects(src) ==
    /\ IF src.channel_idx = 0
       THEN push_sample(ToSampleF32(NextSample(src)))
       ELSE UNCHANGED <<samples, write_pos, pushed>>
    /\ IF Advanced(src).samples_played % SamplesPerSecond(src) = 0
       THEN position_secs' = Advanced(src).samples_played \div SamplesPerSecond(src)
       ELSE UNCHANGED position_secs

\* The audio path pulls one sample from the source of the active sink; a
\* paused sink is not pulled.  At the end of the inner source next() returns
\* None and the sink retires the source.
AudioNext ==
    /\ sink.queue # <<>>
    /\ ~sink.paused
    /\ LET src == Head(sink.queue) IN
       IF HasNext(src)
       THEN /\ NextEffects(src)
            /\ sink' = [sink EXCEPT !.queue = <<Advanced(src)>> \o Tail(@)]
       ELSE /\ sink' = [sink EXCEPT !.queue = Tail(@)]
            /\ UNCHANGED <<samples, write_pos, pushed, position_secs>>
    /\ UNCHANGED <<state, volume, current_path, is_playing, duration,
                   detached, bars, smoothed_bars, lockVars, call, streak, toggled>>

\* The audio path pulls one more sample from the source of a stopped sink.
AudioNextDetached ==
    /\ detached # <<>>
    /\ LET src == Head(detached) IN
       IF HasNext(src)
       THEN /\ NextEffects(src)
            /\ detached' = <<Advanced(src)>>
       ELSE /\ detached' = <<>>
            /\ UNCHANGED <<samples, write_pos, pushed, position_secs>>
    /\ UNCHANGED <<state, volume, current_path, is_playing, duration,
                   sink, bars, smoothed_bars, lockVars, call, streak, toggled>>

\* The audio path observes the stop and drops the source.
AudioDropDetached ==
    /\ detached # <<>>
    /\ detached' = <<>>
    /\ UNCHANGED <<playerVars, samples, write_pos, bars, smoothed_bars, lockVars, pushed,
                   call, streak, toggled>>

\* SharedSpectrum::push_sample called with the sample v.
PushSample(v) ==
    /\ push_sample(v)
    /\ UNCHANGED <<playerVars, detached, bars, smoothed_bars, lockVars, call, streak,
                   toggled>>

PushInput == \E v \in SampleInputs : PushSample(v)

PushTone == \E v \in ToneInputs : PushSample(v)

\* ----------------------------------------------------------------- analyzer
\* The width of the dB range mapped onto [0.0, 1.0].
DbRange == 60

\* SMOOTHING, in tenths.
SMOOTHING == 7

\* Every sample of the copy is 0.0: the windowed input, its FFT, the
\* magnitudes and the bar averages are then exactly 0.0.
Silent(input) == \A i \in 1..FFT_SIZE : input[i] = 0

\* Mutant of ScaledBar: the normalized value is not clamped.
ScaledBarUnclamped(m) ==
    IF m = ZeroMagnitude THEN 0 ELSE ((m + DbRange) * BarScale) \div DbRange

\* The dB scaling of one bar: a magnitude of 0.0 is left alone, any other is
\* mapped from [-60 dB, 0 dB] onto [0.0, 1.0] and clamped.
ScaledBar(m) ==
    IF m = ZeroMagnitude
    THEN 0
    ELSE LET v == ((m + DbRange) * BarScale) \div DbRange IN
         IF v < 0 THEN 0 ELSE IF v > BarScale THEN BarScale ELSE v

\* The product of a bar value and a factor given in tenths, rounded to the
\* nearest bar value.
Times(x, tenths) == (2 * x * tenths + 10) \div 20

\* Mutant of SmoothedBar: the moving average is applied in both directions.
SmoothedBarSymmetric(prev, bar) ==
    Times(prev, SMOOTHING) + Times(bar, 10 - SMOOTHING)

\* The smoothing of one bar: fast attack, slow decay.
SmoothedBar(prev, bar) ==
    IF bar > prev
    THEN bar
    ELSE Times(prev, SMOOTHING) + Times(bar, 10 - SMOOTHING)

\* Mutant of RawBar: a silent copy can give a magnitude above 0.0.
RawBarOfNoise(input, m) == ScaledBar(m)

\* One bar after the dB scaling, for the copied samples and the magnitude
\* the FFT and the averaging give for it.
RawBar(input, m) == ScaledBar(IF Silent(input) THEN ZeroMagnitude ELSE m)

\* The bars after the dB scaling.
RawBars(input, mags) == [i \in 0..(NUM_BARS - 1) |-> RawBar(input, mags[i])]

\* SpectrumAnalyzer::analyze: the samples are copied under the lock, the
\* bars are computed from the copy and smoothed into smoothed_bars, which is
\* returned.  The call is recorded with arg 1 when the copy was silent.
Analyze ==
    \E mags \in Spectra :
        LET input == get_samples
            raw == RawBars(input, mags)
        IN /\ smoothed_bars' =
                  [i \in 0..(NUM_BARS - 1) |-> SmoothedBar(smoothed_bars[i], raw[i])]
           /\ call' = Call("analyze", "Ok", IF Silent(input) THEN 1 ELSE 0,
                           <<>>, <<>>)
           /\ UNCHANGED <<playerVars, detached, samples, write_pos, bars,
                          lockVars, pushed, streak, toggled>>

\* SpectrumAnalyzer::analyze of a signal that is loud in every bar whenever
\* the input is not silent.
AnalyzeTone ==
    \E mags \in ToneSpectra :
        LET input == get_samples
            raw == RawBars(input, mags)
        IN /\ smoothed_bars' =
                  [i \in 0..(NUM_BARS - 1) |-> SmoothedBar(smoothed_bars[i], raw[i])]
           /\ call' = Call("analyze", "Ok", IF Silent(input) THEN 1 ELSE 0,
                           <<>>, <<>>)
           /\ UNCHANGED <<playerVars, detached, samples, write_pos, bars,
                          lockVars, pushed, streak, toggled>>

\* -------------------------------------------------------------------- locks
\* The methods that take a lock of SharedSpectrum, one action per step.  The
\* audio thread runs push_sample; the control thread runs analyze and, inside
\* stop(), clear, one after the other.
IdlePusher == [pc |-> "idle", sample |-> 0]

\* copy is the Vec that get_samples fills; seen is history: the sliding
\* window of the pushes completed when analyze took the lock.
IdleUi == [pc |-> "idle", copy |-> <<>>, seen |-> <<>>]

\* PositionTrackingSource::next calls push_sample with the sample v.
PushCall(v) ==
    /\ pusher.pc = "idle"
    /\ pusher' = [pc |-> "wait", sample |-> v]
    /\ UNCHANGED <<playerVars, detached, samples, write_pos, bars,
                   smoothed_bars, buffer_lock, bars_lock, ui, pushed, call,
                   streak, toggled>>

PushCallTone == \E v \in ToneInputs : PushCall(v)

\* Mutant of PushAcquire: the buffer is entered without waiting for the lock.
PushAcquireUnlocked ==
    /\ pusher.pc = "wait"
    /\ pusher' = [pusher EXCEPT !.pc = "locked"]
    /\ UNCHANGED <<playerVars, detached, samples, write_pos, bars,
                   smoothed_bars, buffer_lock, bars_lock, ui, pushed, call,
                   streak, toggled>>

\* push_sample: self.sample_buffer.lock() returns the guard.
PushAcquire ==
    /\ pusher.pc = "wait"
    /\ buffer_lock = "free"
    /\ buffer_lock' = "audio"
    /\ pusher' = [pusher EXCEPT !.pc = "locked"]
    /\ UNCHANGED <<playerVars, detached, samples, write_pos, bars,
                   smoothed_bars, bars_lock, ui, pushed, call, streak,
                   toggled>>

\* SampleBuffer::push: self.samples[self.write_pos] = sample.
PushWrite ==
    /\ pusher.pc = "locked"
    /\ samples' = PushedSamples(pusher.sample)
    /\ pusher' = [pusher EXCEPT !.pc = "written"]
    /\ UNCHANGED <<playerVars, detached, write_pos, bars, smoothed_bars,
                   buffer_lock, bars_lock, ui, pushed, call, streak, toggled>>

\* SampleBuffer::push: the write position advances; the push is complete.
PushAdvance ==
    /\ pusher.pc = "written"
    /\ write_pos' = PushedWritePos
    /\ pushed' = Pushed(pusher.sample)
    /\ pusher' = [pusher EXCEPT !.pc = "advanced"]
    /\ UNCHANGED <<playerVars, detached, samples, bars, smoothed_bars,
                   buffer_lock, bars_lock, ui, call, streak, toggled>>

\* Mutant of PushRelease: push_sample returns with the guard still held.
PushReleaseKeepingLock ==
    /\ pusher.pc = "advanced"
    /\ pusher' = IdlePusher
    /\ UNCHANGED <<playerVars, detached, samples, write_pos, bars,
                   smoothed_bars, buffer_lock, bars_lock, ui, pushed, call,
                   streak, toggled>>

\* push_sample: the guard is dropped at the end of the if-let block.
PushRelease ==
    /\ pusher.pc = "advanced"
    /\ buffer_lock' = "free"
    /\ pusher' = IdlePusher
    /\ UNCHANGED <<playerVars, detached, samples, write_pos, bars,
                   smoothed_bars, bars_lock, ui, pushed, call, streak,
                   toggled>>

\* The control thread calls SpectrumAnalyzer::analyze.
AnalyzeCall ==
    /\ ui.pc = "idle"
    /\ ui' = [ui EXCEPT !.pc = "analyze_wait"]
    /\ UNCHANGED <<playerVars, detached, samples, write_pos, bars,
                   smoothed_bars, buffer_lock, bars_lock, pusher, pushed,
                   call, streak, toggled>>

\* analyze: self.sample_buffer.lock().unwrap() returns the guard.
AnalyzeAcquire ==
    /\ ui.pc = "analyze_wait"
    /\ buffer_lock = "free"
    /\ buffer_lock' = "ui"
    /\ ui' = [pc |-> "copy", copy |-> <<>>, seen |-> pushed.window]
    /\ UNCHANGED <<playerVars, detached, samples, write_pos, bars,
                   smoothed_bars, bars_lock, pusher, pushed, call, streak,
                   toggled>>

\* SampleBuffer::get_samples: one iteration of the copy loop.
AnalyzeCopy ==
    /\ ui.pc = "copy"
    /\ Len(ui.copy) < FFT_SIZE
    /\ ui' = [ui EXCEPT !.copy =
                  Append(@, samples[(write_pos + Len(@)) % FFT_SIZE])]
    /\ UNCHANGED <<playerVars, detached, samples, write_pos, bars,
                   smoothed_bars, buffer_lock, bars_lock, pusher, pushed,
                   call, streak, toggled>>

\* Mutant of AnalyzeRelease: the guard lives until analyze returns.
AnalyzeReleaseLate ==
    /\ ui.pc = "copy"
    /\ Len(ui.copy) = FFT_SIZE
    /\ ui' = [ui EXCEPT !.pc = "compute"]
    /\ UNCHANGED <<playerVars, detached, samples, write_pos, bars,
                   smoothed_bars, buffer_lock, bars_lock, pusher, pushed,
                   call, streak, toggled>>

\* analyze: the copy is complete and the guard is dropped at the end of the
\* block, before the windowing.
AnalyzeRelease ==
    /\ ui.pc = "copy"
    /\ Len(ui.copy) = FFT_SIZE
    /\ buffer_lock' = "free"
    /\ ui' = [ui EXCEPT !.pc = "compute"]
    /\ UNCHANGED <<playerVars, detached, samples, write_pos, bars,
                   smoothed_bars, bars_lock, pusher, pushed, call, streak,
                   toggled>>

\* analyze: windowing, FFT, averaging, dB scaling and smoothing of the copy;
\* the smoothed bars are returned.
AnalyzeCompute ==
    /\ ui.pc = "compute"
    /\ \E mags \in ToneSpectra :
          LET raw == RawBars(ui.copy, mags) IN
          smoothed_bars' =
              [i \in 0..(NUM_BARS - 1) |-> SmoothedBar(smoothed_bars[i], raw[i])]
    /\ ui' = IdleUi
    /\ call' = Call("analyze", "Ok", IF Silent(ui.copy) THEN 1 ELSE 0,
                    <<>>, <<>>)
    /\ UNCHANGED <<playerVars, detached, samples, write_pos, bars,
                   buffer_lock, bars_lock, pusher, pushed, streak, toggled>>

\* AudioPlayer::stop calls SharedSpectrum::clear.
ClearCall ==
    /\ ui.pc = "idle"
    /\ ui' = [ui EXCEPT !.pc = "clear_wait"]
    /\ UNCHANGED <<playerVars, detached, samples, write_pos, bars,
                   smoothed_bars, buffer_lock, bars_lock, pusher, pushed,
                   call, streak, toggled>>

\* clear: self.bars.lock() returns the guard.
ClearAcquire ==
    /\ ui.pc = "clear_wait"
    /\ bars_lock = "free"
    /\ bars_lock' = "ui"
    /\ ui' = [ui EXCEPT !.pc = "fill"]
    /\ UNCHANGED <<playerVars, detached, samples, write_pos, bars,
                   smoothed_bars, buffer_lock, pusher, pushed, call, streak,
                   toggled>>

\* clear: bars.fill(0.0).
ClearFill ==
    /\ ui.pc = "fill"
    /\ bars' = ClearedBars
    /\ ui' = [ui EXCEPT !.pc = "filled"]
    /\ UNCHANGED <<playerVars, detached, samples, write_pos, smoothed_bars,
                   buffer_lock, bars_lock, pusher, pushed, call, streak,
                   toggled>>

\* clear: the guard is dropped.
ClearRelease ==
    /\ ui.pc = "filled"
    /\ bars_lock' = "free"
    /\ ui' = IdleUi
    /\ UNCHANGED <<playerVars, detached, samples, write_pos, bars,
                   smoothed_bars, buffer_lock, pusher, pushed, call, streak,
                   toggled>>

\* ---------------------------------------------------------- specifications
Next ==
    \/ Play
    \/ Pause
    \/ Resume
    \/ TogglePause
    \/ Stop
    \/ Seek
    \/ SeekForward
    \/ SeekBackward
    \/ SetVolume
    \/ VolumeUp
    \/ VolumeDown
    \/ AudioNext
    \/ AudioNextDetached
    \/ AudioDropDetached
    \/ Analyze

Spec == Init /\ [][Next]_vars

NextTransport ==
    \/ Play
    \/ Pause
    \/ Resume
    \/ TogglePause
    \/ Stop
    \/ AudioNext
    \/ AudioNextDetached
    \/ AudioDropDetached

SpecTransport == Init /\ [][NextTransport]_vars

NextSeek ==
    \/ Play
    \/ Pause
    \/ Resume
    \/ Stop
    \/ Seek
    \/ SeekForward
    \/ SeekBackward
    \/ AudioNext
    \/ AudioNextDetached
    \/ AudioDropDetached

SpecSeek == Init /\ [][NextSeek]_vars

NextVolume ==
    \/ Play
    \/ Pause
    \/ Resume
    \/ TogglePause
    \/ Stop
    \/ SetVolume
    \/ VolumeUp
    \/ VolumeDown

SpecVolume == Init /\ [][NextVolume]_vars

\* The control path with the analyzer and the audio path.
NextFrame ==
    \/ Play
    \/ Pause
    \/ Resume
    \/ Stop
    \/ Seek
    \/ SetVolumeOutOfRange
    \/ AnalyzeTone
    \/ AudioNext
    \/ AudioNextDetached
    \/ AudioDropDetached

SpecFrame == Init /\ [][NextFrame]_vars

\* The control path alone, with the volume and the seek operations.
NextVolumeSeek ==
    \/ Play
    \/ Pause
    \/ Resume
    \/ TogglePause
    \/ Stop
    \/ Seek
    \/ SetVolume
    \/ VolumeUp
    \/ VolumeDown

SpecVolumeSeek == Init /\ [][NextVolumeSeek]_vars

NextBuffer == PushInput

SpecBuffer == Init /\ [][NextBuffer]_vars

NextAnalyzer ==
    \/ PushTone
    \/ Analyze

SpecAnalyzer == Init /\ [][NextAnalyzer]_vars

\* The steps inside push_sample, analyze and clear.
LockSteps ==
    \/ PushAcquire
    \/ PushWrite
    \/ PushAdvance
    \/ PushRelease
    \/ AnalyzeAcquire
    \/ AnalyzeCopy
    \/ AnalyzeRelease
    \/ AnalyzeCompute
    \/ ClearAcquire
    \/ ClearFill
    \/ ClearRelease

NextLocks ==
    \/ PushCallTone
    \/ AnalyzeCall
    \/ ClearCall
    \/ LockSteps

SpecLocks == Init /\ [][NextLocks]_vars

\* Fair scheduling of the two threads inside the methods: a thread that
\* holds the sample-buffer lock keeps running until it has released it, and
\* a push_sample call that waits for the lock gets it once it is free often
\* enough (the control thread takes it for one copy per analyze() call).
\* Nothing obliges either thread to start a call.
FairSpecLocks ==
    /\ SpecLocks
    /\ SF_vars(PushAcquire)
    /\ WF_vars(PushWrite)
    /\ WF_vars(PushAdvance)
    /\ WF_vars(PushRelease)
    /\ WF_vars(AnalyzeCopy)
    /\ WF_vars(AnalyzeRelease)

\* ------------------------------------------------------------------ claims
\* The new source of the active sink has not yet produced one full second.
NewSourceBelowOneSecond ==
    /\ sink.queue # <<>>
    /\ Head(sink.queue).samples_played < SamplesPerSecond(Head(sink.queue))

\* C1: a play(path, duration) call whose file opens and decodes returns Ok
\* from every prior state and leaves the state Playing, the duration the
\* supplied one, the path set, and the elapsed-seconds counter at 0 until the
\* new source has produced one full second of samples.
C1_PlayStartsTrack ==
    (call.op = "play" /\ Head(call.path) \in GoodPaths) =>
        /\ call.ret = "Ok"
        /\ state = "Playing"
        /\ duration = call.arg
        /\ current_path = call.path
        /\ (NewSourceBelowOneSecond => position_secs = 0)

\* C2: stop() called in any state returns with the state Stopped, the
\* position 0, the duration 0 and the path cleared.
C2_StopUnconditional ==
    [][Stop => /\ state' = "Stopped"
               /\ position_secs' = 0
               /\ duration' = 0
               /\ current_path' = <<>>]_vars

C2_Witness ==
    /\ call.op = "stop"
    /\ call.pre = "Paused"
    /\ state = "Stopped"
    /\ position_secs = 0
    /\ duration = 0
    /\ current_path = <<>>

\* C3: pause() in Playing moves to Paused and resume() in Paused moves to
\* Playing; both leave the duration, the elapsed-seconds counter, the path
\* and the stored volume unchanged.
C3_PauseResume ==
    [][/\ (Pause /\ state = "Playing") =>
            /\ state' = "Paused"
            /\ UNCHANGED <<duration, position_secs, current_path, volume>>
       /\ (Resume /\ state = "Paused") =>
            /\ state' = "Playing"
            /\ UNCHANGED <<duration, position_secs, current_path, volume>>]_vars

C3_Witness ==
    /\ call.op = "pause"
    /\ call.pre = "Playing"
    /\ state = "Paused"
    /\ position_secs > 0
    /\ duration > 0
    /\ current_path # <<>>

\* C4: pause() outside Playing, resume() outside Paused and toggle_pause() in
\* Stopped change nothing of the player (state, is-playing flag, sink pause
\* status, position, duration, path, volume) and raise no error.
C4_InvalidTransitionsInert ==
    [][(\/ Pause /\ state # "Playing"
        \/ Resume /\ state # "Paused"
        \/ TogglePause /\ state = "Stopped") =>
            /\ UNCHANGED <<state, is_playing, sink, position_secs, duration,
                           current_path, volume>>
            /\ call'.ret = "Ok"]_vars

C4_Witness ==
    /\ call.op = "resume"
    /\ call.pre = "Playing"
    /\ state = "Playing"
    /\ position_secs > 0

\* The other one of the two non-stopped states.
OtherState(s) == IF s = "Playing" THEN "Paused" ELSE "Playing"

\* C5: toggle_pause() called twice in a row from Playing passes through
\* Paused and ends in Playing; called twice from Paused it ends in Paused.
C5_ToggleInvolution ==
    (toggled # <<>> /\ toggled[1] # "Stopped") =>
        IF toggled[2] = 1
        THEN state = OtherState(toggled[1])
        ELSE state = toggled[1]

C5_Witness ==
    /\ toggled = <<"Playing", 2>>
    /\ call.op = "toggle_pause"
    /\ state = "Playing"

\* A volume inside [0.0, 1.0].
InUnitInterval(v) == ~IsNaN(v) /\ 0 <= v /\ v <= One

\* C6: after set_volume(v) the stored volume is clamp(v, 0.0, 1.0), and the
\* stored volume lies in [0, 1] after any sequence of set_volume, volume_up,
\* volume_down and transport operations.
C6_VolumeInUnitInterval ==
    /\ call.op = "set_volume" => volume = F32Clamp(call.arg, 0, One)
    /\ InUnitInterval(volume)

\* C7: starting from volume 0.0, twenty consecutive volume_up() calls bring
\* the stored volume to exactly 1.0 and every further one leaves it at 1.0.
C7_TwentyStepsReachOne == streak >= 20 => volume = One

C7_Witness ==
    /\ streak = 21
    /\ call.op = "volume_up"
    /\ volume = One

\* C8: seek_forward(amount) requests a seek only to position() + amount and
\* only when that sum is strictly below duration(); otherwise, and always
\* while Stopped, it issues no seek.
C8_SeekForwardBelowDuration ==
    [][SeekForward =>
        /\ call'.seek # <<>> =>
              /\ call'.seek[1] = position + call'.arg
              /\ call'.seek[1] < duration
        /\ position + call'.arg >= duration => call'.seek = <<>>
        /\ state = "Stopped" => call'.seek = <<>>]_vars

C8_Witness ==
    /\ call.op = "seek_forward"
    /\ call.seek = <<>>
    /\ state = "Playing"
    /\ duration > 0
    /\ position_secs > 0

\* C9: seek(), seek_forward() and seek_backward() return Ok in every case,
\* and a seek the sink rejects leaves the state, the duration, the
\* elapsed-seconds counter, the path and the volume as they were.
C9_SeekFailureNotFatal ==
    [][(Seek \/ SeekForward \/ SeekBackward) =>
        /\ call'.ret = "Ok"
        /\ (call'.seek # <<>> /\ ~call'.seek[2]) =>
              UNCHANGED <<state, duration, position_secs, current_path,
                          volume>>]_vars

C9_Witness ==
    /\ call.op = "seek_backward"
    /\ call.seek # <<>>
    /\ ~call.seek[2]
    /\ state = "Playing"
    /\ position_secs > 0

\* C10: progress() is in [0.0, 1.0] in every reachable state and is 0.0
\* whenever duration() is zero.
C10_ProgressInUnitInterval ==
    /\ 0 <= progress[1]
    /\ progress[1] <= progress[2]
    /\ duration = 0 => progress[1] = 0

\* C11: is_finished() is true exactly when the sink has nothing pending and
\* the state is Playing.  It is never true in Stopped or Paused, so it is
\* false after stop() and after pause(); a successful play() leaves it false,
\* and after that play() it turns true only by the step in which the audio
\* path finds the new source exhausted.
C11_IsFinished ==
    /\ [](is_finished <=> (sink.queue = <<>> /\ state = "Playing"))
    /\ [](state \in {"Stopped", "Paused"} => ~is_finished)
    /\ [](call.op \in {"stop", "pause"} => ~is_finished)
    /\ [][(\E p \in Paths, d \in Durations : PlayOk(p, d)) => ~is_finished']_vars
    /\ [][(/\ call.op = "play"
           /\ call' = call
           /\ ~is_finished
           /\ is_finished')
          => (AudioNext /\ ~HasNext(Head(sink.queue)))]_vars

\* A started track has played to its end and is_finished() reports it.
C11_Witness ==
    /\ call.op = "play"
    /\ call.ret = "Ok"
    /\ is_finished

\* C12: a play() whose file cannot be opened or decoded returns an error
\* after the implicit stop: the player is left Stopped with position 0,
\* duration 0, no path and nothing queued on the sink, and the stored volume
\* is the one it had before the call.
C12_FailedPlayStops ==
    [][\A p \in Paths, d \in Durations :
          (PlayErr(p, d) \/ (p \notin GoodPaths /\ PlayOk(p, d)))
          => /\ call'.ret = "Err"
             /\ state' = "Stopped"
             /\ position' = 0
             /\ duration' = 0
             /\ current_path' = <<>>
             /\ sink'.queue = <<>>
             /\ volume' = volume]_vars

\* A play() has failed while a track was playing at a reduced volume.
C12_Witness ==
    /\ call.op = "play"
    /\ call.ret = "Err"
    /\ call.pre = "Playing"
    /\ state = "Stopped"
    /\ sink.queue = <<>>
    /\ volume = DEFAULT_VOLUME

\* C13: a new play() supersedes the previous track instead of queueing
\* behind it: after any sequence of play(), pause(), resume() and stop() the
\* active sink holds at most one source, and after a successful play() that
\* source is the one made for the most recent path.
C13_PlaySupersedes ==
    /\ Len(sink.queue) <= 1
    /\ sink.queue # <<>> => current_path = <<Head(sink.queue).path>>
    /\ (call.op = "play" /\ call.ret = "Ok" /\ sink.queue # <<>>)
       => Head(sink.queue).path = Head(call.path)

\* Track b was started while track a was playing: the sink holds b alone and
\* a is left to the stopped sink.
C13_Witness ==
    /\ call.op = "play"
    /\ call.ret = "Ok"
    /\ call.pre = "Playing"
    /\ Len(sink.queue) = 1
    /\ Head(sink.queue).path = "b"
    /\ detached # <<>>
    /\ Head(detached).path = "a"

\* C14: after any number of pushes on a fresh SampleBuffer, get_samples()
\* returns exactly FFT_SIZE values, equal in order to the last FFT_SIZE
\* elements of FFT_SIZE zeros followed by the pushed values in push order;
\* after fewer than FFT_SIZE pushes the leading entries are the zero fill.
C14_GetSamplesChronological ==
    /\ Len(get_samples) = FFT_SIZE
    /\ get_samples = pushed.window
    /\ \A i \in 1..FFT_SIZE : i <= FFT_SIZE - pushed.n => get_samples[i] = 0

\* One push: the zero fill is still in front of the pushed value.
C14_WitnessZeroFill ==
    /\ pushed.n = 1
    /\ get_samples[1] = 0
    /\ get_samples[FFT_SIZE] = 3

\* At least FFT_SIZE pushes and a write position that is not 0: the buffer
\* has wrapped and the copy still lists the most recent values, oldest first.
C14_Witness ==
    /\ pushed.n = FFT_SIZE
    /\ get_samples[1] = 2
    /\ get_samples[FFT_SIZE] = 0 - 1
    /\ write_pos # 0

\* C15: every analyze() call returns exactly NUM_BARS values, each of them
\* within [0.0, 1.0].
C15_BarsInUnitInterval ==
    /\ DOMAIN smoothed_bars = 0..(NUM_BARS - 1)
    /\ \A i \in DOMAIN smoothed_bars :
          smoothed_bars[i] >= 0 /\ smoothed_bars[i] <= BarScale

\* An analysis of a sounding buffer has returned one bar clamped at 1.0 and
\* one bar at 0.0.
C15_Witness ==
    /\ call.op = "analyze"
    /\ call.arg = 0
    /\ smoothed_bars[0] = BarScale
    /\ smoothed_bars[NUM_BARS - 1] = 0

\* A step of analyze(): only analyze() records itself as the last call and
\* only analyze() writes smoothed_bars.
AnalyzeStep ==
    /\ call'.op = "analyze"
    /\ call' # call \/ smoothed_bars' # smoothed_bars

\* The value out is a * 0.7 + b * 0.3, up to the rounding of the two
\* products.
IsDecayOf(out, a, b) ==
    /\ 10 * out - (SMOOTHING * a + (10 - SMOOTHING) * b) <= 10
    /\ (SMOOTHING * a + (10 - SMOOTHING) * b) - 10 * out <= 10

\* C16: the smoothing is asymmetric.  For each bar, a new value strictly
\* greater than the previous smoothed value is the output; otherwise the
\* output is previous * 0.7 + new * 0.3, so a bar followed by a raw value of
\* 0.0 yields 0.7 times the bar.
C16_AsymmetricSmoothing ==
    [][AnalyzeStep =>
        \A i \in 0..(NUM_BARS - 1) :
            \E m \in MagnitudeInputs :
                LET new == RawBar(get_samples, m)
                    prev == smoothed_bars[i]
                    out == smoothed_bars'[i]
                IN /\ new > prev => out = new
                   /\ new <= prev => IsDecayOf(out, prev, new)
                   /\ new = 0 => (2 * (10 * out - SMOOTHING * prev) <= 10
                                  /\ 2 * (SMOOTHING * prev - 10 * out) <= 10)]_vars

\* A bar at 1.0 was followed by a raw value of 0.0: the analysis returned 0.7.
C16_Witness ==
    /\ call.op = "analyze"
    /\ call.arg = 1
    /\ smoothed_bars[0] = Times(BarScale, SMOOTHING)
    /\ smoothed_bars[0] > 0

\* C17: analyze() on an all-zero ring buffer does not fail: every magnitude
\* is exactly 0.0, the logarithm is skipped and the raw bars stay 0.0.  A
\* fresh analyzer returns all bars 0.0, an analyzer with prior state returns
\* each bar at 0.7 times its previous value.
C17_SilentAnalysis ==
    [][(AnalyzeStep /\ Silent(get_samples)) =>
        /\ call'.ret = "Ok"
        /\ \A m \in MagnitudeInputs : RawBar(get_samples, m) = 0
        /\ \A i \in 0..(NUM_BARS - 1) :
              /\ smoothed_bars[i] = 0 => smoothed_bars'[i] = 0
              /\ 2 * (10 * smoothed_bars'[i] - SMOOTHING * smoothed_bars[i]) <= 10
              /\ 2 * (SMOOTHING * smoothed_bars[i] - 10 * smoothed_bars'[i]) <= 10]_vars

\* The buffer has been filled and is silent again, and an analysis of it has
\* returned the decayed rest of an earlier bar.
C17_Witness ==
    /\ call.op = "analyze"
    /\ call.arg = 1
    /\ pushed.n = FFT_SIZE
    /\ \E i \in 0..(NUM_BARS - 1) :
          smoothed_bars[i] > 0 /\ smoothed_bars[i] < Times(BarScale, SMOOTHING)

\* C18: every change of the playback state follows one of the edges
\* Stopped -> Playing by play(), Playing -> Paused by pause(), Paused ->
\* Playing by resume(), Playing or Paused -> Stopped by stop() (explicit or
\* the one inside play()), or play() from Playing or Paused back into
\* Playing; toggle_pause() takes the pause() and resume() edges.  Paused is
\* only entered from Playing, never from Stopped.
C18_StateEdges ==
    [][state' # state =>
        /\ call'.pre = state
        /\ \/ /\ state = "Stopped"
              /\ state' = "Playing"
              /\ call'.op = "play"
              /\ call'.ret = "Ok"
           \/ /\ state = "Playing"
              /\ state' = "Paused"
              /\ call'.op \in {"pause", "toggle_pause"}
           \/ /\ state = "Paused"
              /\ state' = "Playing"
              /\ \/ call'.op \in {"resume", "toggle_pause"}
                 \/ call'.op = "play" /\ call'.ret = "Ok"
           \/ /\ state \in {"Playing", "Paused"}
              /\ state' = "Stopped"
              /\ \/ call'.op = "stop"
                 \/ call'.op = "play" /\ call'.ret = "Err"]_vars

\* A paused track has been replaced by a new one: play() led from Paused
\* into Playing.
C18_Witness ==
    /\ call.op = "play"
    /\ call.ret = "Ok"
    /\ call.pre = "Paused"
    /\ state = "Playing"

\* C19: in every reachable state where the player is Stopped, position() is
\* 0 and duration() is 0, under every interleaving of the control path with
\* the audio path: the source that was playing when stop() ran stores no
\* non-zero value into the counter after stop() has written 0, and does not
\* overwrite the counter of a newly started track.
C19_StoppedMeansZero ==
    /\ state = "Stopped" => (position = 0 /\ duration = 0)
    /\ (state # "Stopped" /\ NewSourceBelowOneSecond) => position = 0

\* A step of the control path: a call of play(), pause(), resume(),
\* toggle_pause() or stop().
ControlStep == Play \/ Pause \/ Resume \/ TogglePause \/ Stop

\* C20: the elapsed-seconds counter is written only by the audio path
\* (PositionTrackingSource::next) and only read by the control path: no
\* control-path operation stores into it.
C20_OnlyAudioPathWrites ==
    [][position_secs' # position_secs
       => ((AudioNext \/ AudioNextDetached) /\ ~ControlStep)]_vars

\* C20, amended: the counter is written by the audio path, which stores the
\* whole seconds a source has produced (at least 1), and on the control path
\* by stop() alone, explicit or as the first step of play(), which stores 0;
\* pause(), resume() and toggle_pause() never store into it.
C20_WritersOfCounter ==
    [][position_secs' # position_secs
       => \/ /\ AudioNext \/ AudioNextDetached
             /\ position_secs' >= 1
          \/ /\ Stop \/ Play
             /\ call'.op \in {"stop", "play"}
             /\ position_secs' = 0]_vars

\* stop() has stored 0 over the seconds the stopped source had counted.
C20_Witness ==
    /\ call.op = "stop"
    /\ call.pre = "Playing"
    /\ position_secs = 0
    /\ detached # <<>>
    /\ Head(detached).samples_played >= SamplesPerSecond(Head(detached))

\* C21: with push_sample and analyze() running concurrently, the copy taken
\* by get_samples() is never torn.  While analyze holds the lock no push is
\* between its slot write and its cursor advance, every element copied so
\* far is the element of the chronological window of the pushes completed
\* when the lock was taken, and the finished copy is that window.
C21_CopyNeverTorn ==
    /\ buffer_lock = "ui" => pusher.pc \in {"idle", "wait"}
    /\ ui.pc = "copy" =>
          /\ buffer_lock = "ui"
          /\ ui.seen = pushed.window
          /\ ui.copy = SubSeq(ui.seen, 1, Len(ui.copy))
    /\ ui.pc = "compute" => ui.copy = ui.seen

\* A copy is under way in a wrapped buffer while the audio thread waits with
\* its next sample.
C21_Witness ==
    /\ ui.pc = "copy"
    /\ Len(ui.copy) >= 1
    /\ Len(ui.copy) < FFT_SIZE
    /\ pusher.pc = "wait"
    /\ pushed.n = FFT_SIZE
    /\ write_pos # 0
    /\ ui.seen[1] # ui.seen[FFT_SIZE]

\* C22: analyze() holds the sample-buffer lock only for the full-buffer
\* copy.  The lock is held by the control thread exactly while the copy runs,
\* each of its steps under the lock copies one more of the FFT_SIZE elements
\* or releases the lock, and the lock is free of it when the windowing, FFT,
\* averaging and smoothing run; smoothed_bars is written by that compute step
\* of the control thread alone.
C22_LockOnlyForCopy ==
    /\ [](buffer_lock = "ui" <=> ui.pc = "copy")
    /\ [](ui.pc = "copy" => Len(ui.copy) <= FFT_SIZE)
    /\ [][(buffer_lock = "ui" /\ ui' # ui)
          => \/ /\ buffer_lock' = "ui"
                /\ Len(ui'.copy) = Len(ui.copy) + 1
             \/ /\ buffer_lock' = "free"
                /\ Len(ui.copy) = FFT_SIZE
                /\ ui'.pc = "compute"]_vars
    /\ [][smoothed_bars' # smoothed_bars
          => /\ ui.pc = "compute"
             /\ buffer_lock # "ui"
             /\ pusher' = pusher]_vars

\* The audio thread is inside a push while analyze computes on its copy.
C22_Witness ==
    /\ ui.pc = "compute"
    /\ pusher.pc = "written"
    /\ buffer_lock = "audio"

\* The inner source of a wrapper: the decoded samples and how many of them
\* the decoder has handed out.
InnerData(src) == Decode(src.path).data

\* One call of next() on the wrapper src that leaves the wrapper after (no
\* wrapper when the sink has retired it) is transparent.
TransparentCall(src, after) ==
    IF src.idx < Len(InnerData(src))
    THEN /\ NextSample(src) = InnerData(src)[src.idx + 1]
         /\ after # <<>>
         /\ Head(after).idx = src.idx + 1
         /\ Head(after).path = src.path
    ELSE /\ after = <<>>
         /\ UNCHANGED <<position_secs, samples, write_pos, pushed>>

LiveSources ==
    {sink.queue[i] : i \in DOMAIN sink.queue} \cup
    {detached[i] : i \in DOMAIN detached}

\* ceil(n / c)
CeilDiv(n, c) == (n + c - 1) \div c

\* One call of next() on the wrapper src pushes exactly when the sample it
\* yields is the first of its frame, and then pushes that sample.
PushesFirstOfFrame(src) ==
    IF HasNext(src) /\ src.samples_played % src.channels = 0
    THEN /\ write_pos' = (write_pos + 1) % FFT_SIZE
         /\ samples'[write_pos] =
               ToSampleF32(InnerData(src)[src.samples_played + 1])
         /\ pushed'.window[FFT_SIZE] = samples'[write_pos]
    ELSE UNCHANGED <<samples, write_pos, pushed>>

\* C24: a wrapper over a source of C >= 1 channels pushes exactly the
\* samples at the interleaved indices 0, C, 2C, ... into the ring buffer:
\* its channel index is always (samples produced) mod C, after n samples it
\* has pushed ceil(n / C) times, and a call pushes if and only if the index
\* of the sample it yields is a multiple of C.
C24_FirstChannelOnly ==
    /\ [](\A src \in LiveSources :
            /\ src.channels >= 1
            /\ src.channel_idx = src.samples_played % src.channels
            /\ src.pushes = CeilDiv(src.samples_played, src.channels))
    /\ [][/\ AudioNext => PushesFirstOfFrame(Head(sink.queue))
          /\ AudioNextDetached => PushesFirstOfFrame(Head(detached))]_vars

\* The two-channel wrapper has produced an odd number of samples beyond the
\* first frame: the last call yielded a first-channel sample and pushed it,
\* the call before it yielded a second-channel sample and pushed nothing.
C24_Witness ==
    /\ sink.queue # <<>>
    /\ Head(sink.queue).channels = 2
    /\ Head(sink.queue).samples_played = 3
    /\ Head(sink.queue).pushes = 2
    /\ Head(sink.queue).channel_idx = 1

\* The whole seconds the wrapper src has produced.
WholeSeconds(src) == src.samples_played \div SamplesPerSecond(src)

\* C25: within one playback session, from a successful play() to the next
\* stop() or play(), the elapsed-seconds counter is
\* floor(samples_played / (sample_rate * channels)) of the session's
\* wrapper after every sample it has produced, so it lags the true position
\* by less than one second, and it never decreases during the session.
C25_CounterIsWholeSeconds ==
    /\ []((state # "Stopped" /\ sink.queue # <<>>) =>
             position_secs = WholeSeconds(Head(sink.queue)))
    /\ [][(state # "Stopped" /\ call' = call) =>
             position_secs' >= position_secs]_vars

\* C26: stop() zeroes the bars of SharedSpectrum and leaves the ring buffer,
\* contents and write cursor, as it was; no control-path operation (play,
\* pause, resume, stop, seek, set_volume, analyze) modifies the ring buffer:
\* only a pull of the audio path does, so analyze() after a stop still reads
\* the samples of the stopped track.
C26_RingBufferFrame ==
    /\ [][(samples' # samples \/ write_pos' # write_pos) =>
             (AudioNext \/ AudioNextDetached)]_vars
    /\ [][(call'.op = "stop" /\ call' # call) =>
             /\ bars' = ClearedBars
             /\ get_samples' = get_samples
             /\ UNCHANGED <<samples, write_pos, smoothed_bars>>]_vars
    /\ [][AnalyzeStep => /\ call'.arg = 1 <=> Silent(get_samples)
                         /\ get_samples' = get_samples]_vars

\* The player is stopped, the audio path has dropped the old source, and an
\* analyze() call has just read a ring buffer that still holds samples of
\* the stopped track.
C26_Witness ==
    /\ state = "Stopped"
    /\ detached = <<>>
    /\ sink.queue = <<>>
    /\ call.op = "analyze"
    /\ call.arg = 0
    /\ ~Silent(get_samples)
    /\ pushed.n = FFT_SIZE

\* C27 as stated: the sample-buffer lock and the bars lock of SharedSpectrum
\* are never held at the same time.
C27_LocksNeverHeldTogether == ~(buffer_lock # "free" /\ bars_lock # "free")

\* A thread is inside a locked region.
AudioHoldsLock == pusher.pc \in {"locked", "written", "advanced"}
UiHoldsLock == ui.pc \in {"copy", "fill", "filled"}

\* C27, amended: no thread holds the two locks of SharedSpectrum at once
\* (the control thread holds at most one of them, the audio thread only ever
\* the sample-buffer lock), and a thread that holds a lock can always take
\* its next step, waiting on nothing, until it has released the lock.  So
\* no interleaving of push_sample, analyze and clear deadlocks: while a call
\* is in progress some step of a call is enabled; and under fair scheduling
\* every push_sample call that has started completes.
C27_NoNestedLocksNoDeadlock ==
    /\ [](~(buffer_lock = "ui" /\ bars_lock = "ui"))
    /\ [](buffer_lock = "audio" <=> AudioHoldsLock)
    /\ [](bars_lock # "audio")
    /\ [](AudioHoldsLock =>
             ENABLED (PushWrite \/ PushAdvance \/ PushRelease))
    /\ [](UiHoldsLock =>
             ENABLED (AnalyzeCopy \/ AnalyzeRelease \/ ClearFill \/ ClearRelease))
    /\ []((pusher.pc # "idle" \/ ui.pc # "idle") => ENABLED LockSteps)
    /\ (pusher.pc # "idle") ~> (pusher.pc = "idle")

\* A push_sample call waits for the sample-buffer lock while analyze() holds
\* it with the copy complete, just before the release.
C27_Witness ==
    /\ pusher.pc = "wait"
    /\ buffer_lock = "ui"
    /\ ui.pc = "copy"
    /\ Len(ui.copy) = FFT_SIZE
    /\ bars_lock = "free"

\* C28: after every control-path operation has returned (the constructor,
\* play, a failing play, pause, resume, toggle_pause, stop) the is-playing
\* flag is true exactly when state() is Playing.
C28_FlagFollowsState == is_playing <=> state = "Playing"

\* A play() of a file that cannot be opened, called while a track was
\* playing, has returned its error: the flag is down and the old source is
\* still with the audio path.
C28_Witness ==
    /\ call.op = "play"
    /\ call.ret = "Err"
    /\ call.pre = "Playing"
    /\ state = "Stopped"
    /\ ~is_playing
    /\ detached # <<>>

\* C29: the stored volume survives the replacement of the sink.  Whenever
\* the state is Playing or Paused at the end of a control-path operation the
\* active sink plays at the stored volume, although stop() swaps in a fresh
\* sink at the default volume and set_volume() may have been called while
\* Stopped; and only set_volume(), volume_up() and volume_down() change the
\* stored volume: play, pause, resume, stop and seek never do.
C29_VolumeSurvivesSinkSwap ==
    /\ [](state \in {"Playing", "Paused"} => sink.volume = volume)
    /\ [][volume' # volume =>
             call'.op \in {"set_volume", "volume_up", "volume_down"}]_vars

\* A track started from Stopped plays at a volume that was set while the
\* player was stopped and that is neither the configured nor the sink's
\* default volume.
C29_Witness ==
    /\ call.op = "play"
    /\ call.ret = "Ok"
    /\ call.pre = "Stopped"
    /\ state = "Playing"
    /\ volume = 0
    /\ sink.volume = 0

\* A call of seek(), seek_forward() or seek_backward().
SeekCallStep ==
    /\ call'.op \in {"seek", "seek_forward", "seek_backward"}
    /\ call' # call

\* C30: seek(), seek_forward() and seek_backward() never write the
\* elapsed-seconds counter nor the sample count of the wrapper, whether the
\* sink accepts the request or not, so position() right after a seek is
\* position() right before it; and a seek_forward(amount) that follows a
\* seek_forward(amount) before the counter has moved computes the same
\* target again.
C30_SeekLeavesPosition ==
    /\ [][SeekCallStep =>
             /\ UNCHANGED <<position_secs, sink, detached>>
             /\ position' = position]_vars
    /\ [][(/\ call.op = "seek_forward"
           /\ call'.op = "seek_forward"
           /\ call'.arg = call.arg
           /\ call.seek # <<>>
           /\ position = call.seek[1] - call.arg) =>
             (call'.seek # <<>> /\ call'.seek[1] = call.seek[1])]_vars

\* The sink has accepted a seek_forward() on a track that had played for a
\* second or more, and position() is still what it was before the call.
C30_Witness ==
    /\ call.op = "seek_forward"
    /\ call.seek # <<>>
    /\ call.seek[2]
    /\ state = "Playing"
    /\ sink.queue # <<>>
    /\ position_secs >= 1
    /\ position = call.seek[1] - call.arg

====
